---- MODULE Spec2Model ----
(***************************************************************************)
(* The penguin dashboard of app.py: the reactive calculation               *)
(* filtered_data, the six outputs that consume it, and the sidebar         *)
(* controls that feed it.                                                  *)
(*                                                                         *)
(* A Record is a row of penguins_df.  A measurement that is missing (NaN)  *)
(* is the empty sequence <<>>, a measurement that is present is the        *)
(* one-element sequence <<v>>.  A data frame is a sequence of rows.        *)
(***************************************************************************)
EXTENDS Integers, Sequences, FiniteSets, TLC

VARIABLES
    penguins_df,            \* the frame loaded at process start
    selected_attribute,     \* input.selected_attribute()
    plotly_bin_count,       \* input.plotly_bin_count()
    seaborn_bin_count,      \* input.seaborn_bin_count()
    selected_species_list,  \* input.selected_species_list(), as a set
    selected_island_list,   \* input.selected_island_list(), as a set
    body_mass_range,        \* input.body_mass_range(), <<low, high>>
    calc,                   \* the reactive.Calc of filtered_data: [valid, value]
    outputs,                \* what each output surface shows
    pending,                \* the invalidated outputs awaiting the flush
    first_call,             \* history: the first execution of filtered_data
    other_call              \* history: filtered_data has since run under other criteria

vars == <<penguins_df, selected_attribute, plotly_bin_count, seaborn_bin_count,
          selected_species_list, selected_island_list, body_mass_range,
          calc, outputs, pending, first_call, other_call>>

inputs == <<selected_attribute, plotly_bin_count, seaborn_bin_count,
            selected_species_list, selected_island_list, body_mass_range>>

history == <<first_call, other_call>>

----------------------------------------------------------------------------
(* The user interface: the choices each control offers. *)

AttributeChoices == {"bill_length_mm", "bill_depth_mm", "flipper_length_mm", "body_mass_g"}

SpeciesChoices == {"Adelie", "Gentoo", "Chinstrap"}

IslandChoices == {"Biscoe", "Dream", "Torgersen"}

PlotlyBinDefault == 20
SeabornBinMin == 1
SeabornBinMax == 20
SeabornBinDefault == 10
SliderMin == 1000
SliderMax == 6000
SliderLowDefault == 2000
SliderHighDefault == 5000

\* The values the numeric input is set to.
PlotlyBinChoices == {PlotlyBinDefault, PlotlyBinDefault + 10}

\* The positions the bin slider is moved to.
SeabornBinChoices == {SeabornBinMin, SeabornBinDefault, SeabornBinMax}

\* The positions the ends of the body-mass slider are moved to.
SliderStops == {SliderLowDefault, 3000, SliderHighDefault, SliderMax}

\* A range slider keeps low <= high.
SliderRanges == {rg \in SliderStops \X SliderStops : rg[1] <= rg[2]}

\* The ranges filtered_data is applied to: the slider's, and the two of the
\* documented examples, which a client may send as well.
MassRanges == SliderRanges \cup {<<2500, 5500>>, <<SliderMax, 6100>>}

OutputOrder == <<"penguins_table", "penguins_grid", "plotly_histogram",
                 "seaborn_histogram", "plotly_scatterplot", "plotly_violin">>

OutputNames == {OutputOrder[i] : i \in 1..Len(OutputOrder)}

----------------------------------------------------------------------------
(* The data. *)

Missing == <<>>

Row(sp, isl, bl, bd, fl, bm) ==
    [species |-> sp, island |-> isl, bill_length_mm |-> bl, bill_depth_mm |-> bd,
     flipper_length_mm |-> fl, body_mass_g |-> bm]

\* Rows of the kind load_penguins() returns: one per species and island of
\* the documented example, and one whose measurements are all missing.
SampleRows ==
    << Row("Adelie", "Biscoe", <<38>>, <<18>>, <<181>>, <<3000>>),
       Row("Gentoo", "Dream", <<47>>, <<15>>, <<217>>, <<5200>>),
       Row("Chinstrap", "Torgersen", <<49>>, <<19>>, <<195>>, <<3600>>),
       Row("Adelie", "Torgersen", Missing, Missing, Missing, Missing) >>

SampleRowSet == {SampleRows[i] : i \in 1..Len(SampleRows)}

\* The largest frame the filter is applied to.
MaxRows == 3

Datasets == UNION {[1..n -> SampleRowSet] : n \in 0..MaxRows}

----------------------------------------------------------------------------
(* pandas, as far as filtered_data uses it.  A column and a boolean mask   *)
(* are sequences aligned with the rows of the frame they come from.        *)

\* df[name]
RECURSIVE Column(_, _)
Column(df, name) ==
    IF df = <<>> THEN <<>> ELSE <<Head(df)[name]>> \o Column(Tail(df), name)

\* A filter that takes an empty selection to mean "no filter".
RECURSIVE IsinSeriesOrAll(_, _)
IsinSeriesOrAll(col, values) ==
    IF col = <<>> THEN <<>>
    ELSE <<values = {} \/ Head(col) \in values>> \o IsinSeriesOrAll(Tail(col), values)

\* series.isin(values): a missing value is in no list of labels.
RECURSIVE IsinSeries(_, _)
IsinSeries(col, values) ==
    IF col = <<>> THEN <<>>
    ELSE <<Head(col) \in values>> \o IsinSeries(Tail(col), values)

\* series > bound
RECURSIVE GtSeries(_, _)
GtSeries(col, bound) ==
    IF col = <<>> THEN <<>>
    ELSE <<Head(col) # Missing /\ Head(col)[1] > bound>> \o GtSeries(Tail(col), bound)

\* series >= bound: a comparison with a missing value is False.
RECURSIVE GeSeries(_, _)
GeSeries(col, bound) ==
    IF col = <<>> THEN <<>>
    ELSE <<Head(col) # Missing /\ Head(col)[1] >= bound>> \o GeSeries(Tail(col), bound)

\* series <= bound
RECURSIVE LeSeries(_, _)
LeSeries(col, bound) ==
    IF col = <<>> THEN <<>>
    ELSE <<Head(col) # Missing /\ Head(col)[1] <= bound>> \o LeSeries(Tail(col), bound)

\* a | b
RECURSIVE OrSeries(_, _)
OrSeries(a, b) ==
    IF a = <<>> THEN <<>> ELSE <<Head(a) \/ Head(b)>> \o OrSeries(Tail(a), Tail(b))

\* a & b
RECURSIVE AndSeries(_, _)
AndSeries(a, b) ==
    IF a = <<>> THEN <<>> ELSE <<Head(a) /\ Head(b)>> \o AndSeries(Tail(a), Tail(b))

\* df[mask] followed by a descending sort on the row position.
RECURSIVE BoolIndexReversed(_, _)
BoolIndexReversed(df, mask) ==
    IF df = <<>> THEN <<>>
    ELSE BoolIndexReversed(Tail(df), Tail(mask))
            \o (IF Head(mask) THEN <<Head(df)>> ELSE <<>>)

\* df[mask]: a new frame of the rows whose mask is True, in the frame's order.
RECURSIVE BoolIndex(_, _)
BoolIndex(df, mask) ==
    IF df = <<>> THEN <<>>
    ELSE (IF Head(mask) THEN <<Head(df)>> ELSE <<>>) \o BoolIndex(Tail(df), Tail(mask))

\* A filter that narrows the frame it returned last.
FilterSourcePrevious == IF first_call.set THEN calc.value ELSE penguins_df

\* The frame filtered_data starts from.
FilterSource == penguins_df

\* A slider compared with the column the attribute selector names.
MassColumnNameSelected == selected_attribute

\* The column the body-mass slider is compared with.
MassColumnName == "body_mass_g"

\* ~((series < mass_min) | (series > mass_max)): a missing value is neither.
RECURSIVE MassMaskNotOutside(_, _, _)
MassMaskNotOutside(col, mass_min, mass_max) ==
    IF col = <<>> THEN <<>>
    ELSE <<~(Head(col) # Missing /\ (Head(col)[1] < mass_min \/ Head(col)[1] > mass_max))>>
            \o MassMaskNotOutside(Tail(col), mass_min, mass_max)

\* (filtered_df["body_mass_g"] >= mass_min) & (filtered_df["body_mass_g"] <= mass_max)
MassMask(col, mass_min, mass_max) ==
    AndSeries(GeSeries(col, mass_min), LeSeries(col, mass_max))

\* penguins_df[penguins_df["species"].isin(input.selected_species_list())]
BySpecies(df, species_list) ==
    BoolIndex(df, IsinSeries(Column(df, "species"), species_list))

\* filtered_df[filtered_df["island"].isin(input.selected_island_list())]
ByIsland(df, island_list) ==
    BoolIndex(df, IsinSeries(Column(df, "island"), island_list))

\* mass_min, mass_max = input.body_mass_range(); filtered_df[(...) & (...)]
ByBodyMass(df, mass_range) ==
    BoolIndex(df, MassMask(Column(df, MassColumnName), mass_range[1], mass_range[2]))

\* The body of filtered_data, on the inputs as they are now.
filtered_data ==
    ByBodyMass(ByIsland(BySpecies(FilterSource, selected_species_list),
                        selected_island_list),
               body_mass_range)

----------------------------------------------------------------------------
(* The reactive graph the decorators build. *)

\* A filtered_data that reads the slider without taking a dependency on it.
CalcReadsIsolated == {"selected_species_list", "selected_island_list"}

\* The inputs filtered_data reads.
CalcReads == {"selected_species_list", "selected_island_list", "body_mass_range"}

\* The inputs each renderer reads itself; every renderer also reads filtered_data().
OutputReads(o) ==
    CASE o = "plotly_histogram"  -> {"selected_attribute", "plotly_bin_count"}
      [] o = "seaborn_histogram" -> {"selected_attribute", "seaborn_bin_count"}
      [] o = "plotly_violin"     -> {"selected_attribute"}
      [] OTHER                   -> {}

\* reactive.Calc: the body runs when the cached value is invalid, else the cache answers.
CalcGet(c) == IF c.valid THEN c ELSE [valid |-> TRUE, value |-> filtered_data]

\* A renderer that fails on a frame without rows.
RenderOutputNeedsRows(o, df) ==
    IF df = <<>> THEN [kind |-> "error"] ELSE [kind |-> "rendered", data |-> df]

\* What a renderer hands to its output for the frame df.
RenderOutput(o, df) ==
    CASE o = "penguins_table"     -> [kind |-> "data_frame", data |-> df]
      [] o = "penguins_grid"      -> [kind |-> "data_frame", data |-> df]
      [] o = "plotly_histogram"   -> [kind |-> "px.histogram", data |-> df,
                                      x |-> selected_attribute, nbins |-> plotly_bin_count]
      [] o = "seaborn_histogram"  -> [kind |-> "sns.histplot", data |-> df,
                                      x |-> selected_attribute, bins |-> seaborn_bin_count]
      [] o = "plotly_scatterplot" -> [kind |-> "px.scatter", data |-> df,
                                      x |-> "body_mass_g", y |-> "flipper_length_mm"]
      [] o = "plotly_violin"      -> [kind |-> "px.violin", data |-> df,
                                      y |-> selected_attribute, x |-> "species"]

NotRendered == [kind |-> "none"]

\* The criteria filtered_data reads, as one value.
Criteria == <<selected_species_list, selected_island_list, body_mass_range>>

\* An input changed: what read it is invalidated, and an invalidated
\* filtered_data invalidates the outputs that read it (all of them).
Invalidate(name) ==
    /\ calc' = IF name \in CalcReads THEN [calc EXCEPT !.valid = FALSE] ELSE calc
    /\ pending' = {o \in OutputNames : name \in CalcReads \/ name \in OutputReads(o)}
    /\ UNCHANGED <<penguins_df, outputs, history>>

SetSelectedAttribute ==
    /\ pending = {}
    /\ \E v \in AttributeChoices \ {selected_attribute} : selected_attribute' = v
    /\ Invalidate("selected_attribute")
    /\ UNCHANGED <<plotly_bin_count, seaborn_bin_count, selected_species_list,
                   selected_island_list, body_mass_range>>

SetPlotlyBinCount ==
    /\ pending = {}
    /\ \E v \in PlotlyBinChoices \ {plotly_bin_count} : plotly_bin_count' = v
    /\ Invalidate("plotly_bin_count")
    /\ UNCHANGED <<selected_attribute, seaborn_bin_count, selected_species_list,
                   selected_island_list, body_mass_range>>

SetSeabornBinCount ==
    /\ pending = {}
    /\ \E v \in SeabornBinChoices \ {seaborn_bin_count} : seaborn_bin_count' = v
    /\ Invalidate("seaborn_bin_count")
    /\ UNCHANGED <<selected_attribute, plotly_bin_count, selected_species_list,
                   selected_island_list, body_mass_range>>

\* One checkbox of the species group is ticked or unticked.
SetSelectedSpeciesList ==
    /\ pending = {}
    /\ \E s \in SpeciesChoices :
          selected_species_list' = IF s \in selected_species_list
                                   THEN selected_species_list \ {s}
                                   ELSE selected_species_list \cup {s}
    /\ Invalidate("selected_species_list")
    /\ UNCHANGED <<selected_attribute, plotly_bin_count, seaborn_bin_count,
                   selected_island_list, body_mass_range>>

\* One checkbox of the island group is ticked or unticked.
SetSelectedIslandList ==
    /\ pending = {}
    /\ \E s \in IslandChoices :
          selected_island_list' = IF s \in selected_island_list
                                  THEN selected_island_list \ {s}
                                  ELSE selected_island_list \cup {s}
    /\ Invalidate("selected_island_list")
    /\ UNCHANGED <<selected_attribute, plotly_bin_count, seaborn_bin_count,
                   selected_species_list, body_mass_range>>

SetBodyMassRange ==
    /\ pending = {}
    /\ \E rg \in SliderRanges \ {body_mass_range} : body_mass_range' = rg
    /\ Invalidate("body_mass_range")
    /\ UNCHANGED <<selected_attribute, plotly_bin_count, seaborn_bin_count,
                   selected_species_list, selected_island_list>>

\* The flush: each invalidated output runs its renderer, in turn, on filtered_data().
RECURSIVE FlushFrom(_, _, _)
FlushFrom(i, c, outs) ==
    IF i > Len(OutputOrder) THEN [calc |-> c, outputs |-> outs]
    ELSE LET o == OutputOrder[i]
         IN  IF o \in pending
             THEN LET got == CalcGet(c)
                  IN  FlushFrom(i + 1, got, [outs EXCEPT ![o] = RenderOutput(o, got.value)])
             ELSE FlushFrom(i + 1, c, outs)

RunFlush ==
    /\ pending # {}
    /\ LET done == FlushFrom(1, calc, outputs)
           ran  == ~calc.valid
       IN  /\ calc' = done.calc
           /\ outputs' = done.outputs
           /\ first_call' = IF ran /\ ~first_call.set
                            THEN [set |-> TRUE, criteria |-> Criteria, result |-> done.calc.value]
                            ELSE first_call
           /\ other_call' = (other_call \/ (ran /\ first_call.set /\ first_call.criteria # Criteria))
    /\ pending' = {}
    /\ UNCHANGED inputs

\* A filter that assigns its result to penguins_df.
FlushInPlace == RunFlush /\ penguins_df' = calc'.value

\* filtered_df is a new frame each time; penguins_df is never assigned.
Flush == RunFlush /\ UNCHANGED penguins_df

----------------------------------------------------------------------------
(* The dashboard: the session starts with the controls at their defaults   *)
(* and every output waiting for its first rendering.                       *)

SessionStart ==
    /\ calc = [valid |-> FALSE, value |-> <<>>]
    /\ outputs = [o \in OutputNames |-> NotRendered]
    /\ pending = OutputNames
    /\ first_call = [set |-> FALSE, criteria |-> <<>>, result |-> <<>>]
    /\ other_call = FALSE

Init ==
    /\ penguins_df = SampleRows
    /\ selected_attribute = "bill_length_mm"
    /\ plotly_bin_count = PlotlyBinDefault
    /\ seaborn_bin_count = SeabornBinDefault
    /\ selected_species_list = SpeciesChoices
    /\ selected_island_list = IslandChoices
    /\ body_mass_range = <<SliderLowDefault, SliderHighDefault>>
    /\ SessionStart

Next ==
    \/ SetSelectedAttribute
    \/ SetPlotlyBinCount
    \/ SetSeabornBinCount
    \/ SetSelectedSpeciesList
    \/ SetSelectedIslandList
    \/ SetBodyMassRange
    \/ Flush

Spec == Init /\ [][Next]_vars

(* filtered_data as a function: any frame of at most MaxRows rows, any     *)
(* criteria a client can send, and the first flush of the session.         *)

InitFilter ==
    /\ penguins_df \in Datasets
    /\ selected_attribute = "bill_length_mm"
    /\ plotly_bin_count = PlotlyBinDefault
    /\ seaborn_bin_count = SeabornBinDefault
    /\ selected_species_list \in SUBSET SpeciesChoices
    /\ selected_island_list \in SUBSET IslandChoices
    /\ body_mass_range \in MassRanges
    /\ SessionStart

NextFilter == Flush

SpecFilter == InitFilter /\ [][NextFilter]_vars

----------------------------------------------------------------------------
(* What the claims are stated with. *)

\* The three predicates of the Filter Criteria, on one Record.
Qualifies(r) ==
    /\ r.species \in selected_species_list
    /\ r.island \in selected_island_list
    /\ r.body_mass_g # Missing
    /\ body_mass_range[1] <= r.body_mass_g[1]
    /\ r.body_mass_g[1] <= body_mass_range[2]

\* The reference filter: the qualifying Records of df, in order.
RECURSIVE Reference(_)
Reference(df) ==
    IF df = <<>> THEN <<>>
    ELSE (IF Qualifies(Head(df)) THEN <<Head(df)>> ELSE <<>>) \o Reference(Tail(df))

\* s is t with some of its elements left out.
RECURSIVE IsSubsequence(_, _)
IsSubsequence(s, t) ==
    IF s = <<>> THEN TRUE
    ELSE IF t = <<>> THEN FALSE
    ELSE IF Head(s) = Head(t) THEN IsSubsequence(Tail(s), Tail(t))
    ELSE IsSubsequence(s, Tail(t))

\* filtered_data has been invoked under the current criteria and has returned.
Returned == pending = {} /\ calc.valid

\* The three-record dataset of the documented examples.
ExampleDataset == SubSeq(SampleRows, 1, 3)

\* C1: every Record of the result of filtered_data has its species in
\* species_subset, its island in island_subset and a body mass that is
\* present and within [min, max].
C1_ResultSatisfiesPredicates ==
    Returned => \A i \in 1..Len(calc.value) : Qualifies(calc.value[i])

\* C1's case: the filter kept a Record and left one out.
C1_Witness ==
    /\ Returned
    /\ calc.value # <<>>
    /\ \E i \in 1..Len(penguins_df) : ~Qualifies(penguins_df[i])

\* C2: the result of filtered_data is exactly the qualifying Records, both
\* ends of the mass range included; the example dataset under species
\* {Adelie, Gentoo}, island {Biscoe, Dream} and mass [2500, 5500] yields
\* (Adelie, Biscoe, 3000) and (Gentoo, Dream, 5200).
C2_ResultIsReferenceFilter ==
    Returned =>
        /\ calc.value = Reference(penguins_df)
        /\ \A i \in 1..Len(penguins_df) :
              LET r == penguins_df[i]
              IN  (/\ r.species \in selected_species_list
                   /\ r.island \in selected_island_list
                   /\ r.body_mass_g \in {<<body_mass_range[1]>>, <<body_mass_range[2]>>})
                  => \E k \in 1..Len(calc.value) : calc.value[k] = r
        /\ (/\ penguins_df = ExampleDataset
            /\ selected_species_list = {"Adelie", "Gentoo"}
            /\ selected_island_list = {"Biscoe", "Dream"}
            /\ body_mass_range = <<2500, 5500>>)
           => calc.value = <<SampleRows[1], SampleRows[2]>>

\* C2's case: the documented example has been filtered.
C2_Witness ==
    /\ Returned
    /\ penguins_df = ExampleDataset
    /\ selected_species_list = {"Adelie", "Gentoo"}
    /\ selected_island_list = {"Biscoe", "Dream"}
    /\ body_mass_range = <<2500, 5500>>
    /\ Len(calc.value) = 2

\* C3: the result of filtered_data is a subsequence of the Dataset: no
\* Record that is not in it, none more often than in it, and the survivors
\* in the Dataset's order.
C3_ResultIsSubsequence ==
    Returned => IsSubsequence(calc.value, penguins_df)

\* C3's case: two different Records survived and a third was left out.
C3_Witness ==
    /\ Returned
    /\ Len(calc.value) = 2
    /\ calc.value[1] # calc.value[2]
    /\ Len(penguins_df) > 2

\* C4: with species_subset empty or island_subset empty the result of
\* filtered_data is empty, whatever the other subset and the mass range.
C4_EmptySubsetEmptyResult ==
    (Returned /\ (selected_species_list = {} \/ selected_island_list = {}))
        => calc.value = <<>>

\* C4's case: no species is ticked, every island is, and a Record of the
\* Dataset lies in the mass range.
C4_Witness ==
    /\ Returned
    /\ selected_species_list = {}
    /\ selected_island_list = IslandChoices
    /\ \E i \in 1..Len(penguins_df) :
          /\ penguins_df[i].body_mass_g # Missing
          /\ body_mass_range[1] <= penguins_df[i].body_mass_g[1]
          /\ penguins_df[i].body_mass_g[1] <= body_mass_range[2]

\* C5: a Record whose body_mass_g is missing never appears in the result of
\* filtered_data, also when its species and island are both selected.
C5_MissingMassExcluded ==
    Returned => \A i \in 1..Len(calc.value) : calc.value[i].body_mass_g # Missing

\* C5's case: a Record without body mass whose species and island are selected.
C5_Witness ==
    /\ Returned
    /\ \E i \in 1..Len(penguins_df) :
          /\ penguins_df[i].body_mass_g = Missing
          /\ penguins_df[i].species \in selected_species_list
          /\ penguins_df[i].island \in selected_island_list

C6_SourceDatasetUnchanged == [][penguins_df' = penguins_df]_vars

\* C6's case: the controls were changed and filtered_data was invoked again,
\* returning fewer Records than the Dataset holds.
C6_Witness ==
    /\ Returned
    /\ other_call
    /\ Len(calc.value) < Len(penguins_df)

\* C7: an invocation of filtered_data under the criteria of the session's
\* first invocation returns the first invocation's result, whatever was
\* applied in between; and after any history the result is the reference
\* filter of the Dataset under the current criteria alone.
C7_SameCriteriaSameResult ==
    calc.valid =>
        /\ (first_call.set /\ Criteria = first_call.criteria)
           => calc.value = first_call.result
        /\ calc.value = Reference(penguins_df)

\* C7's case: filtered_data ran under other criteria and then again under
\* the criteria of its first invocation.
C7_Witness ==
    /\ Returned
    /\ other_call
    /\ Criteria = first_call.criteria
    /\ first_call.result # <<>>

\* What output o shows when it is up to date.
Shows(o, shown) ==
    /\ shown.kind # "none"
    /\ shown.data = Reference(penguins_df)
    /\ o \in {"penguins_table", "penguins_grid"} => shown.kind = "data_frame"
    /\ o = "plotly_histogram" =>
          shown.x = selected_attribute /\ shown.nbins = plotly_bin_count
    /\ o = "seaborn_histogram" =>
          shown.x = selected_attribute /\ shown.bins = seaborn_bin_count
    /\ o = "plotly_violin" => shown.y = selected_attribute

\* C9: once the flush has run, each of the six outputs shows the filter of
\* the Dataset under the current criteria, none shows data filtered under
\* earlier criteria, and all six show the same filtered Dataset.
C9_OutputsShowCurrentFilter ==
    pending = {} =>
        /\ \A o \in OutputNames : Shows(o, outputs[o])
        /\ \A o1, o2 \in OutputNames : outputs[o1].data = outputs[o2].data

\* C9's case: the criteria were changed, the flush ran, and the outputs show
\* other data than the session's first rendering.
C9_Witness ==
    /\ pending = {}
    /\ other_call
    /\ outputs["plotly_violin"].data # first_call.result

\* A step that changes selected_attribute, plotly_bin_count or
\* seaborn_bin_count and none of the Filter Criteria.
NonFilterChange ==
    /\ Criteria' = Criteria
    /\ <<selected_attribute, plotly_bin_count, seaborn_bin_count>>'
          # <<selected_attribute, plotly_bin_count, seaborn_bin_count>>

\* C10: changing selected_attribute, plotly_bin_count or seaborn_bin_count
\* leaves the result of filtered_data unchanged: with the criteria as they
\* were when filtered_data last ran, its body yields the cached result under
\* every setting of the three controls; such a change neither invalidates
\* filtered_data nor touches the table and the grid, which the flush that
\* follows leaves as they are.
C10_NonFilterControlsIgnored ==
    /\ [](calc.valid => filtered_data = calc.value)
    /\ [][/\ NonFilterChange =>
                /\ calc' = calc
                /\ pending' \cap {"penguins_table", "penguins_grid"} = {}
                /\ outputs' = outputs
          /\ \A o \in {"penguins_table", "penguins_grid"} :
                o \notin pending => outputs'[o] = outputs[o]]_vars

\* C10's case: the attribute was changed and the charts were redrawn while
\* filtered_data has run once only.
C10_Witness ==
    /\ pending = {}
    /\ selected_attribute = "body_mass_g"
    /\ outputs["plotly_histogram"].x = "body_mass_g"
    /\ first_call.set
    /\ ~other_call

====
